---- MODULE Spec2Model ----
(***************************************************************************)
(* Model of server.py (Notion Research Buddy): the three tool operations   *)
(* process_research_page, get_page_content, combine_architecture_diagrams, *)
(* the two LangGraph nodes they run, and the HTTP routes wrapping them.    *)
(*                                                                         *)
(* A Python str is a sequence of one-character strings; a code point       *)
(* outside ASCII (and the backtick) is written as the token "U+XXXX".    *)
(* The fixed wording of the prompt templates is left out of the recorded   *)
(* model calls: a call records the node that made it and the text          *)
(* interpolated in the prompt.                                             *)
(***************************************************************************)
EXTENDS Integers, Sequences, FiniteSets, TLC

\* ------------------------------------------------------------------ bounds
MaxBlocks == 2
MaxRuns == 2
MaxDiagrams == 3
MaxPieces == 6

\* ------------------------------------------------------- string constants
NL == "\n"
\* the backtick character U+0060
BT == "U+0060"
Whitespace == {" ", NL, "\t"}
ErrorWord == <<"E", "r", "r", "o", "r">>
ErrorReadingPrefix == <<"E", "r", "r", "o", "r", " ", "r", "e", "a", "d", "i", "n", "g", " ", "N", "o", "t", "i", "o", "n", ":", " ">>
ErrorAgentPrefix == <<"E", "r", "r", "o", "r", " ", "r", "u", "n", "n", "i", "n", "g", " ", "a", "g", "e", "n", "t", ":", " ">>
ErrorWritingPrefix == <<"E", "r", "r", "o", "r", " ", "w", "r", "i", "t", "i", "n", "g", " ", "t", "o", " ", "N", "o", "t", "i", "o", "n", ":", " ">>
ErrorCombinePrefix == <<"E", "r", "r", "o", "r", " ", "c", "o", "m", "b", "i", "n", "i", "n", "g", " ", "d", "i", "a", "g", "r", "a", "m", "s", ":", " ">>
WarnNoParagraphText == <<"U+26A0", "U+FE0F", " ", "P", "a", "g", "e", " ", "i", "s", " ", "e", "m", "p", "t", "y", " ", "o", "r", " ", "c", "o", "n", "t", "a", "i", "n", "s", " ", "n", "o", " ", "p", "a", "r", "a", "g", "r", "a", "p", "h", " ", "t", "e", "x", "t", ".">>
WarnPageEmpty == <<"U+26A0", "U+FE0F", " ", "P", "a", "g", "e", " ", "i", "s", " ", "e", "m", "p", "t", "y", ".">>
WarnNoDiagrams == <<"U+26A0", "U+FE0F", " ", "N", "o", " ", "d", "i", "a", "g", "r", "a", "m", "s", " ", "p", "r", "o", "v", "i", "d", "e", "d", " ", "t", "o", " ", "c", "o", "m", "b", "i", "n", "e", ".">>
SuccessMessage == <<"U+2705", " ", "P", "a", "g", "e", " ", "r", "e", "f", "i", "n", "e", "d", " ", "a", "n", "d", " ", "d", "i", "a", "g", "r", "a", "m", " ", "a", "d", "d", "e", "d", "!">>
RefinedHeading == <<"U+2728", " ", "R", "e", "f", "i", "n", "e", "d", " ", "N", "o", "t", "e", "s">>
DiagramHeading == <<"U+1F4CA", " ", "A", "r", "c", "h", "i", "t", "e", "c", "t", "u", "r", "e", " ", "D", "i", "a", "g", "r", "a", "m">>
BulletPrefix == <<"U+2022", " ">>
FenceMermaid == <<BT, BT, BT, "m", "e", "r", "m", "a", "i", "d">>
Fence == <<BT, BT, BT>>
MermaidWord == <<"m", "e", "r", "m", "a", "i", "d">>
LabelPrefix == <<"#", "#", "#", " ">>
RichTextLimit == 2000

\* Python None: a one-element tuple holding a token that is no character.
None == <<"None">>

\* ------------------------------------------------------- str operations
Min(S) == CHOOSE x \in S : \A y \in S : x <= y

\* "".join(parts)
RECURSIVE Concat(_)
Concat(parts) ==
    IF parts = <<>> THEN <<>> ELSE Head(parts) \o Concat(Tail(parts))

\* sep.join(parts)
RECURSIVE Join(_, _)
Join(parts, sep) ==
    IF parts = <<>> THEN <<>>
    ELSE IF Len(parts) = 1 THEN Head(parts)
    ELSE Head(parts) \o sep \o Join(Tail(parts), sep)

\* s.startswith(p)
StartsWith(s, p) == Len(s) >= Len(p) /\ SubSeq(s, 1, Len(p)) = p

\* positions at which pat occurs in s
Occurrences(s, pat) ==
    {i \in 1..(Len(s) - Len(pat) + 1) : SubSeq(s, i, i + Len(pat) - 1) = pat}

\* s.replace(pat, ""): leftmost non-overlapping occurrences are removed
RECURSIVE Remove(_, _)
Remove(s, pat) ==
    LET occ == Occurrences(s, pat)
    IN  IF occ = {} THEN s
        ELSE LET i == Min(occ)
             IN  SubSeq(s, 1, i - 1) \o Remove(SubSeq(s, i + Len(pat), Len(s)), pat)

\* s.strip()
Strip(s) ==
    LET n == Len(s)
        lead == {i \in 1..n : s[i] \notin Whitespace}
        trail == {k \in 1..n : s[n + 1 - k] \notin Whitespace}
    IN  IF lead = {} THEN <<>> ELSE SubSeq(s, Min(lead), n + 1 - Min(trail))

\* s[:n]
Slice(s, n) == SubSeq(s, 1, IF Len(s) < n THEN Len(s) ELSE n)

\* truth value of an Optional[str]
Truthy(x) == x # None /\ x # <<>>

\* ------------------------------------------------------- LangGraph nodes
\* AgentState(raw_notes=raw_text, page_id=page_id)
AgentState(raw, pid) ==
    [raw_notes |-> raw, refined_notes |-> None, mermaid_code |-> None, page_id |-> pid]

NoState == AgentState(<<>>, "")

\* rewrite_notes_node: the text put in the prompt
RefinerContent(st) == st.raw_notes

\* variant: the diagram is always drawn from the raw notes
DiagramContentRaw(st) == st.raw_notes

\* generate_diagram_node: content = state.refined_notes or state.raw_notes
DiagramContent(st) ==
    IF Truthy(st.refined_notes) THEN st.refined_notes ELSE st.raw_notes

\* variant: the two replacements are made in the other order
CleanResponseSwapped(content) == Strip(Remove(Remove(content, Fence), FenceMermaid))

\* response.content.replace("```mermaid", "").replace("```", "").strip()
CleanResponse(content) == Strip(Remove(Remove(content, FenceMermaid), Fence))

\* ------------------------------------------------------ content extractors
\* process_research_page: one part per text item of each paragraph block
RECURSIVE ParagraphParts(_)
ParagraphParts(bl) ==
    IF bl = <<>> THEN <<>>
    ELSE (IF Head(bl).type = "paragraph" /\ Head(bl).rich_text # <<>>
          THEN Head(bl).rich_text ELSE <<>>) \o ParagraphParts(Tail(bl))

\* int(block_type[-1])
HeadingLevel(type) ==
    CASE type = "heading_1" -> 1 [] type = "heading_2" -> 2 [] type = "heading_3" -> 3

\* '#' * n
Hashes(n) == [i \in 1..n |-> "#"]

\* get_page_content: the parts one block adds to raw_text_parts
BlockParts(b) ==
    IF b.type = "paragraph" /\ b.rich_text # <<>> THEN b.rich_text
    ELSE IF b.type \in {"heading_1", "heading_2", "heading_3"}
    THEN (IF b.rich_text # <<>>
          THEN << <<NL>> \o Hashes(HeadingLevel(b.type)) \o <<" ">>
                    \o Concat(b.rich_text) \o <<NL>> >>
          ELSE <<>>)
    ELSE IF b.type = "bulleted_list_item" /\ b.rich_text # <<>>
    THEN [i \in 1..Len(b.rich_text) |-> BulletPrefix \o b.rich_text[i]]
    ELSE <<>>

RECURSIVE ContentParts(_)
ContentParts(bl) ==
    IF bl = <<>> THEN <<>> ELSE BlockParts(Head(bl)) \o ContentParts(Tail(bl))

\* variant: the emptiness test is made without strip()
IsBlankNoStrip(raw_text) == raw_text = <<>>

\* not raw_text.strip()
IsBlank(raw_text) == Strip(raw_text) = <<>>

\* variant: the joined text is returned without the emptiness test
ContentResultNoCheck(parts) == Join(parts, <<NL>>)

\* "\n".join(raw_text_parts) if raw_text_parts else warning
ContentResult(parts) == IF parts # <<>> THEN Join(parts, <<NL>>) ELSE WarnPageEmpty

\* ------------------------------------------------------- write-back blocks
DividerBlock == [type |-> "divider", content |-> <<>>, language |-> ""]
HeadingBlock(text) == [type |-> "heading_2", content |-> text, language |-> ""]
ParagraphBlock(text) == [type |-> "paragraph", content |-> text, language |-> ""]
CodeBlock(text) == [type |-> "code", content |-> text, language |-> "mermaid"]

\* variant: the refined notes are written without the [:2000] slice
RefinedContentUncut(st) == IF Truthy(st.refined_notes) THEN st.refined_notes ELSE <<>>

\* result["refined_notes"][:2000] if result.get("refined_notes") else ""
RefinedContent(st) ==
    IF Truthy(st.refined_notes) THEN Slice(st.refined_notes, RichTextLimit) ELSE <<>>

\* result.get("mermaid_code", "")
MermaidContent(st) == IF st.mermaid_code = None THEN <<>> ELSE st.mermaid_code

\* variant: a failing append is swallowed and the write-back goes on
AfterAppendSwallow(ok, next) == next

\* the statement that follows an append call: the next one, or the except clause
AfterAppend(ok, next) == IF ok THEN next ELSE "done"

\* ------------------------------------------------------- diagram merging
\* f"### {d.label}\n```mermaid\n{d.mermaid_code}\n```"
DiagramSection(d) ==
    LabelPrefix \o d.label \o <<NL>> \o FenceMermaid \o <<NL>> \o d.mermaid_code
        \o <<NL>> \o Fence

\* "\n\n".join([... for d in ctx.diagrams])
DiagramsText(ds) == Join([i \in 1..Len(ds) |-> DiagramSection(ds[i])], <<NL, NL>>)

\* variant: the single-diagram early return is missing
NeedsModelAlways(ds) == ds # <<>>

\* neither early return of combine_architecture_diagrams is taken
NeedsModel(ds) == ds # <<>> /\ Len(ds) # 1

\* ------------------------------------------------------------- HTTP routes
NoResponse == [status |-> 0, payload |-> <<>>]

\* variant: a warning string is rejected like an error string
HttpResponseWarn(res) ==
    IF StartsWith(res, ErrorWord) \/ StartsWith(res, <<"U+26A0">>)
    THEN [status |-> 400, payload |-> res]
    ELSE [status |-> 200, payload |-> res]

\* if result.startswith("Error"): raise HTTPException(400, detail=result)
HttpResponse(res) ==
    IF StartsWith(res, ErrorWord) THEN [status |-> 400, payload |-> res]
    ELSE [status |-> 200, payload |-> res]

\* ------------------------------------------------------------------ inputs
SeqsUpTo(S, n) == UNION {[1..k -> S] : k \in 0..n}

PageIds == {"p1", "p2"}
Surfaces == {"mcp", "http"}
\* str(e) of the exception raised by a failing remote call
ExcTexts == {<<"4", "0", "4">>}

\* plain_text of one text item
RunTexts == {<<"a">>, <<" ">>}
\* rich_text of a paragraph block, and of a heading or a bulleted item
RichTexts == SeqsUpTo(RunTexts, MaxRuns)
PlainRichTexts == SeqsUpTo({<<"a">>}, MaxRuns)
BlockTypes ==
    {"paragraph", "heading_1", "heading_2", "heading_3", "bulleted_list_item"}
Blocks ==
    [type : {"paragraph"}, rich_text : RichTexts]
        \cup [type : BlockTypes \ {"paragraph"}, rich_text : PlainRichTexts]
        \cup {[type |-> "divider", rich_text |-> <<>>]}
\* blocks["results"] as the store may return it to get_page_content
PageListings == SeqsUpTo(Blocks, MaxBlocks)

\* the listings offered to process_research_page: paragraphs without text
\* items, with one (text or blank) and with two, and two block types its
\* extractor does not read
ProcessBlocks ==
    {b \in Blocks :
        \/ /\ b.type = "paragraph"
           /\ b.rich_text \in {<<>>, << <<"a">> >>, << <<" ">> >>, << <<"a">>, <<" ">> >>}
        \/ b.type = "divider"
        \/ b.type = "heading_2" /\ b.rich_text = << <<"a">> >>}
ProcessListings == SeqsUpTo(ProcessBlocks, MaxBlocks)

\* a text of n characters whose last character differs from the others
RECURSIVE Repeat(_, _)
Repeat(c, n) ==
    IF n = 0 THEN <<>>
    ELSE IF n % 2 = 0 THEN LET h == Repeat(c, n \div 2) IN h \o h
    ELSE Append(Repeat(c, n - 1), c)

LongText(n) == Append(Repeat("a", n - 1), "z")

\* response.content of the refiner's model call
RefinerResponses ==
    {<<>>, <<"r">>, LongText(RichTextLimit), LongText(RichTextLimit + 1)}

\* response.content of the architect's model call
ArchitectResponses ==
    { Fence,
      <<"g">>,
      FenceMermaid \o <<NL, "g", NL>> \o Fence,
      LongText(RichTextLimit + 1) }

DiagramCodes == {<<"g">>, <<" ">> \o Fence \o <<"g", " ">>, ErrorWord}
DiagramInputs == [label : {<<"A">>}, mermaid_code : DiagramCodes]
DiagramLists == SeqsUpTo(DiagramInputs, MaxDiagrams)
\* response.content of the merge call
CombineResponses == {<<"g">>, Fence \o <<NL, "g", NL>> \o Fence, ErrorWord}

\* ------------------------------------------------------------------- state
VARIABLES
    pc,          \* position of the running invocation
    op,          \* the operation invoked: "process", "read", "combine"
    surface,     \* the entry point it was invoked through
    page_id,     \* ctx.page_id
    listing,     \* outcome of notion.blocks.children.list: "none", "ok", "failed"
    blocks,      \* blocks["results"] of a listing that succeeded
    raw_text,    \* raw_text of process_research_page
    diagrams,    \* ctx.diagrams
    state,       \* the AgentState the graph runs over
    llmCalls,    \* llm.invoke calls issued, in order
    appendCalls, \* notion.blocks.children.append calls issued, in order
    appended,    \* children each page received from the calls that succeeded
    ret,         \* the string the tool returned
    response,    \* the HTTP response of the route
    text,        \* cleanup check: the model output
    cleaned,     \* cleanup check: the output cleaned once
    recleaned    \* cleanup check: the cleaned output cleaned again

vars ==
    <<pc, op, surface, page_id, listing, blocks, raw_text, diagrams, state, llmCalls,
      appendCalls, appended, ret, response, text, cleaned, recleaned>>

cleanVars == <<text, cleaned, recleaned>>

Idle ==
    /\ pc = "idle"
    /\ op = "none"
    /\ surface = "mcp"
    /\ page_id = ""
    /\ listing = "none"
    /\ blocks = <<>>
    /\ raw_text = None
    /\ diagrams = <<>>
    /\ state = NoState
    /\ llmCalls = <<>>
    /\ appendCalls = <<>>
    /\ appended = [p \in PageIds |-> <<>>]
    /\ ret = None
    /\ response = NoResponse

Init == Idle /\ text = <<>> /\ cleaned = None /\ recleaned = None

LlmCall(node, content) == [node |-> node, text |-> content]
AppendCall(pid, block, ok) == [page |-> pid, block |-> block, ok |-> ok]

\* ------------------------------------------------- process_research_page
\* A. Read Notion, and the empty check that follows it
ReadNotion ==
    /\ pc = "idle"
    /\ \E s \in Surfaces, p \in PageIds :
        /\ op' = "process" /\ surface' = s /\ page_id' = p
        /\ \/ \E e \in ExcTexts :
                /\ listing' = "failed" /\ blocks' = <<>> /\ raw_text' = None
                /\ ret' = ErrorReadingPrefix \o e
                /\ pc' = "done"
                /\ state' = state
           \/ \E bl \in ProcessListings :
                LET raw == Join(ParagraphParts(bl), <<NL>>)
                IN  /\ listing' = "ok" /\ blocks' = bl /\ raw_text' = raw
                    /\ IF IsBlank(raw)
                       THEN ret' = WarnNoParagraphText /\ pc' = "done" /\ state' = state
                       ELSE ret' = ret /\ pc' = "refiner" /\ state' = AgentState(raw, p)
    /\ UNCHANGED <<diagrams, llmCalls, appendCalls, appended, response, cleanVars>>

\* B. Run Agent, node "refiner"
RunRefiner ==
    /\ pc = "refiner"
    /\ llmCalls' = Append(llmCalls, LlmCall("refiner", RefinerContent(state)))
    /\ \/ \E r \in RefinerResponses :
            /\ state' = [state EXCEPT !.refined_notes = r]
            /\ pc' = "architect" /\ ret' = ret
       \/ \E e \in ExcTexts :
            /\ ret' = ErrorAgentPrefix \o e
            /\ pc' = "done" /\ state' = state
    /\ UNCHANGED <<op, surface, page_id, listing, blocks, raw_text, diagrams, appendCalls,
                   appended, response, cleanVars>>

\* B. Run Agent, node "architect"
RunArchitect ==
    /\ pc = "architect"
    /\ llmCalls' = Append(llmCalls, LlmCall("architect", DiagramContent(state)))
    /\ \/ \E d \in ArchitectResponses :
            /\ state' = [state EXCEPT !.mermaid_code = CleanResponse(d)]
            /\ pc' = "divider" /\ ret' = ret
       \/ \E e \in ExcTexts :
            /\ ret' = ErrorAgentPrefix \o e
            /\ pc' = "done" /\ state' = state
    /\ UNCHANGED <<op, surface, page_id, listing, blocks, raw_text, diagrams, appendCalls,
                   appended, response, cleanVars>>

\* notion.blocks.children.append(page_id, children=[block]) inside the try of C
NotionAppend(block, next) ==
    /\ \E ok \in BOOLEAN :
        /\ appendCalls' = Append(appendCalls, AppendCall(page_id, block, ok))
        /\ appended' = IF ok THEN [appended EXCEPT ![page_id] = Append(@, block)]
                       ELSE appended
        /\ pc' = AfterAppend(ok, next)
        /\ IF pc' = "done" /\ ~ok
           THEN \E e \in ExcTexts : ret' = ErrorWritingPrefix \o e
           ELSE IF pc' = "done" THEN ret' = SuccessMessage
           ELSE ret' = ret
    /\ UNCHANGED <<op, surface, page_id, listing, blocks, raw_text, diagrams, state, llmCalls,
                   response, cleanVars>>

SkipAppend(next) ==
    /\ pc' = next
    /\ ret' = IF next = "done" THEN SuccessMessage ELSE ret
    /\ UNCHANGED <<op, surface, page_id, listing, blocks, raw_text, diagrams, state, llmCalls,
                   appendCalls, appended, response, cleanVars>>

AppendDivider ==
    /\ pc = "divider"
    /\ NotionAppend(DividerBlock, "heading_refined")

\* variant: the two headings are written in the other order
AppendRefinedHeadingSwapped ==
    /\ pc = "heading_refined"
    /\ NotionAppend(HeadingBlock(DiagramHeading), "paragraph")

AppendRefinedHeading ==
    /\ pc = "heading_refined"
    /\ NotionAppend(HeadingBlock(RefinedHeading), "paragraph")

AppendRefinedParagraph ==
    /\ pc = "paragraph"
    /\ IF RefinedContent(state) # <<>>
       THEN NotionAppend(ParagraphBlock(RefinedContent(state)), "heading_diagram")
       ELSE SkipAppend("heading_diagram")

AppendDiagramHeading ==
    /\ pc = "heading_diagram"
    /\ NotionAppend(HeadingBlock(DiagramHeading), "code")

AppendDiagramCode ==
    /\ pc = "code"
    /\ IF MermaidContent(state) # <<>>
       THEN NotionAppend(CodeBlock(MermaidContent(state)), "done")
       ELSE SkipAppend("done")

\* --------------------------------------------------------- get_page_content
GetPageContent ==
    /\ pc = "idle"
    /\ \E s \in Surfaces, p \in PageIds :
        /\ op' = "read" /\ surface' = s /\ page_id' = p
        /\ \/ \E e \in ExcTexts :
                /\ listing' = "failed" /\ blocks' = <<>>
                /\ ret' = ErrorReadingPrefix \o e
           \/ \E bl \in PageListings :
                /\ listing' = "ok" /\ blocks' = bl
                /\ ret' = ContentResult(ContentParts(bl))
    /\ pc' = "done"
    /\ UNCHANGED <<raw_text, diagrams, state, llmCalls, appendCalls, appended,
                   response, cleanVars>>

\* -------------------------------------------- combine_architecture_diagrams
CombineDiagrams ==
    /\ pc = "idle"
    /\ \E s \in Surfaces, ds \in DiagramLists :
        /\ op' = "combine" /\ surface' = s /\ diagrams' = ds
        /\ IF ~NeedsModel(ds)
           THEN /\ ret' = IF ds = <<>> THEN WarnNoDiagrams ELSE ds[1].mermaid_code
                /\ llmCalls' = llmCalls
           ELSE /\ llmCalls' = Append(llmCalls, LlmCall("combine", DiagramsText(ds)))
                /\ \/ \E c \in CombineResponses : ret' = CleanResponse(c)
                   \/ \E e \in ExcTexts : ret' = ErrorCombinePrefix \o e
    /\ pc' = "done"
    /\ UNCHANGED <<page_id, listing, blocks, raw_text, state, appendCalls, appended,
                   response, cleanVars>>

\* ------------------------------------------------------------ entry points
\* the tool returns ret; an HTTP route turns it into its response
Return ==
    /\ pc = "done"
    /\ pc' = "returned"
    /\ response' = IF surface = "http" THEN HttpResponse(ret) ELSE NoResponse
    /\ UNCHANGED <<op, surface, page_id, listing, blocks, raw_text, diagrams, state,
                   llmCalls, appendCalls, appended, ret, cleanVars>>

\* the request is over; nothing of it is kept for the next one
NextRequest ==
    /\ pc = "returned"
    /\ pc' = "idle"
    /\ op' = "none"
    /\ surface' = "mcp"
    /\ page_id' = ""
    /\ listing' = "none"
    /\ blocks' = <<>>
    /\ raw_text' = None
    /\ diagrams' = <<>>
    /\ state' = NoState
    /\ llmCalls' = <<>>
    /\ appendCalls' = <<>>
    /\ appended' = [p \in PageIds |-> <<>>]
    /\ ret' = None
    /\ response' = NoResponse
    /\ UNCHANGED cleanVars

Next ==
    \/ ReadNotion
    \/ RunRefiner
    \/ RunArchitect
    \/ AppendDivider
    \/ AppendRefinedHeading
    \/ AppendRefinedParagraph
    \/ AppendDiagramHeading
    \/ AppendDiagramCode
    \/ GetPageContent
    \/ CombineDiagrams
    \/ Return
    \/ NextRequest

Spec == Init /\ [][Next]_vars

\* ------------------------------------------ the response cleanup on its own
Pieces == {<<BT>>, Fence, MermaidWord, <<NL>>, <<"g">>}
ModelOutputs == {Concat(ps) : ps \in SeqsUpTo(Pieces, MaxPieces)}

InitClean ==
    /\ Idle
    /\ text \in ModelOutputs
    /\ cleaned = None
    /\ recleaned = None

Clean ==
    /\ cleaned = None
    /\ cleaned' = CleanResponse(text)
    /\ UNCHANGED <<pc, op, surface, page_id, listing, blocks, raw_text, diagrams,
                   state, llmCalls, appendCalls, appended, ret, response, text,
                   recleaned>>

CleanAgain ==
    /\ cleaned # None
    /\ recleaned = None
    /\ recleaned' = CleanResponse(cleaned)
    /\ UNCHANGED <<pc, op, surface, page_id, listing, blocks, raw_text, diagrams,
                   state, llmCalls, appendCalls, appended, ret, response, text,
                   cleaned>>

NextClean == Clean \/ CleanAgain

SpecClean == InitClean /\ [][NextClean]_vars

\* ================================================================== claims
Finished == pc \in {"done", "returned"}
AllAppendsOk == \A i \in 1..Len(appendCalls) : appendCalls[i].ok
HasText(t) == t # None /\ \E i \in 1..Len(t) : t[i] \notin Whitespace

\* C1: a process invocation whose extracted text is non-empty, whose two model
\* calls succeed with non-empty refined_notes and diagram_code, and in which no
\* append fails, issues exactly five append calls against its page, in the
\* order divider, heading "Refined Notes", paragraph with the refined text,
\* heading "Architecture Diagram", code block tagged mermaid holding the
\* diagram, and returns the success string.
C1_FiveAppendsInOrder ==
    ( /\ op = "process" /\ Finished
      /\ HasText(raw_text)
      /\ Truthy(state.refined_notes) /\ Truthy(state.mermaid_code)
      /\ AllAppendsOk )
    => /\ Len(appendCalls) = 5
       /\ \A i \in 1..5 : appendCalls[i].page = page_id
       /\ appendCalls[1].block.type = "divider"
       /\ appendCalls[2].block = [type |-> "heading_2", content |-> RefinedHeading,
                                  language |-> ""]
       /\ appendCalls[3].block.type = "paragraph"
       /\ appendCalls[3].block.content # <<>>
       /\ StartsWith(state.refined_notes, appendCalls[3].block.content)
       /\ appendCalls[4].block = [type |-> "heading_2", content |-> DiagramHeading,
                                  language |-> ""]
       /\ appendCalls[5].block = [type |-> "code", content |-> state.mermaid_code,
                                  language |-> "mermaid"]
       /\ appended[page_id] = [i \in 1..5 |-> appendCalls[i].block]
       /\ ret = SuccessMessage

C1_Witness ==
    /\ op = "process" /\ pc = "returned" /\ ret = SuccessMessage
    /\ Len(appendCalls) = 5 /\ AllAppendsOk
    /\ state.refined_notes = <<"r">> /\ state.mermaid_code = <<"g">>

\* C2: an append call is issued only after the page read has succeeded, the
\* extracted text is non-empty, and the refinement and then the diagram step
\* have completed without failure; a read failure, an empty page or a model
\* failure hence leaves the invocation with zero append calls.
C2_AppendOnlyAfterPipeline ==
    /\ appendCalls # <<>> =>
          /\ op = "process" /\ listing = "ok"
          /\ HasText(raw_text)
          /\ Len(llmCalls) = 2
          /\ llmCalls[1].node = "refiner" /\ llmCalls[2].node = "architect"
          /\ state.refined_notes # None /\ state.mermaid_code # None
    /\ ( /\ op = "process" /\ Finished
         /\ \/ listing = "failed"
            \/ ret = WarnNoParagraphText
            \/ StartsWith(ret, ErrorAgentPrefix) )
       => appendCalls = <<>> /\ \A p \in PageIds : appended[p] = <<>>

C2_Witness ==
    /\ pc = "heading_refined" /\ Len(appendCalls) = 1
    /\ listing = "ok" /\ Len(llmCalls) = 2

\* C3: when the k-th append call of a process invocation fails (k in 1..5), the
\* k-1 blocks appended before it stay on the page, the failed call is the last
\* append call of the invocation (none follows it, none is retried), and the
\* invocation returns a string starting with "Error writing".
C3_PartialWriteOnFailure ==
    \A k \in 1..Len(appendCalls) :
        ~appendCalls[k].ok =>
            /\ k \in 1..5
            /\ k = Len(appendCalls)
            /\ Finished
            /\ appended[page_id] = [i \in 1..(k - 1) |-> appendCalls[i].block]
            /\ \A i \in 1..(k - 1) : appendCalls[i].ok
            /\ StartsWith(ret, <<"E", "r", "r", "o", "r", " ", "w", "r", "i", "t", "i", "n", "g">>)

C3_Witness ==
    /\ pc = "returned" /\ Len(appendCalls) = 5 /\ ~appendCalls[5].ok
    /\ Len(appended[page_id]) = 4

\* C4: combine with zero diagrams returns the "no diagrams" warning without a
\* model call; with exactly one diagram it returns that diagram's code
\* unchanged without a model call; the model is called exactly once when there
\* are two or more diagrams, and not at all otherwise.
C4_CombineShortCircuits ==
    (op = "combine" /\ Finished) =>
        /\ Len(diagrams) = 0 => ret = WarnNoDiagrams /\ llmCalls = <<>>
        /\ Len(diagrams) = 1 => ret = diagrams[1].mermaid_code /\ llmCalls = <<>>
        /\ Len(llmCalls) = IF Len(diagrams) >= 2 THEN 1 ELSE 0
        /\ \A i \in 1..Len(llmCalls) : llmCalls[i].node = "combine"

C4_Witness ==
    /\ op = "combine" /\ pc = "done" /\ Len(diagrams) = 1
    /\ ret = <<" ">> \o Fence \o <<"g", " ">>
    /\ llmCalls = <<>>

\* C5 (as stated): the diagram step runs after every refinement that did not
\* fail, and the text it sends to the model is refined_notes whenever
\* refined_notes is present, whatever its content, and raw_notes only when
\* refined_notes is absent.
C5_Original ==
    (op = "process" /\ state.refined_notes # None /\ pc # "architect") =>
        /\ Len(llmCalls) = 2
        /\ llmCalls[2].node = "architect"
        /\ llmCalls[2].text = state.refined_notes

\* C5 (amended): the diagram step runs after every refinement that did not
\* fail, and the text it sends to the model is refined_notes whenever
\* refined_notes is present and not the empty string, and raw_notes when
\* refined_notes is absent or the empty string.
C5_DiagramInput ==
    (op = "process" /\ state.refined_notes # None /\ pc # "architect") =>
        /\ Len(llmCalls) = 2
        /\ llmCalls[1] = [node |-> "refiner", text |-> state.raw_notes]
        /\ llmCalls[2].node = "architect"
        /\ state.refined_notes # <<>> => llmCalls[2].text = state.refined_notes
        /\ state.refined_notes = <<>> => llmCalls[2].text = state.raw_notes

C5_Witness ==
    /\ op = "process" /\ pc = "divider"
    /\ state.refined_notes = <<>>
    /\ Len(llmCalls) = 2 /\ llmCalls[2].text = state.raw_notes
    /\ state.raw_notes # <<>>

\* ---- cleanup, stated without the operators of the model
NoFence(t) ==
    ~\E i \in 1..(Len(t) - 2) : t[i] = BT /\ t[i + 1] = BT /\ t[i + 2] = BT

\* c is t without its leading and trailing whitespace
IsTrimOf(c, t) ==
    /\ c = <<>> \/ (c[1] \notin Whitespace /\ c[Len(c)] \notin Whitespace)
    /\ \E a \in 0..Len(t) :
        /\ a + Len(c) <= Len(t)
        /\ \A k \in 1..Len(t) :
              IF k <= a \/ k > a + Len(c) THEN t[k] \in Whitespace
              ELSE t[k] = c[k - a]

\* the opening marker of a text that starts with a fence
Opening(t) == IF StartsWith(t, FenceMermaid) THEN FenceMermaid ELSE Fence

\* what lies between the opening marker and the closing ```
Inner(t) == SubSeq(t, Len(Opening(t)) + 1, Len(t) - 3)

\* t is an opening marker, a content free of backticks, and a closing ```
Wrapped(t) ==
    /\ StartsWith(t, Fence)
    /\ Len(t) >= Len(Opening(t)) + 3
    /\ SubSeq(t, Len(t) - 2, Len(t)) = Fence
    /\ \A i \in 1..Len(Inner(t)) : Inner(t)[i] # BT

\* C6 (as stated): the cleanup is idempotent, returns every text that holds no
\* code-fence marker unchanged, and returns only the inner content of a text
\* wrapped in fence markers.
C6_Original ==
    /\ recleaned # None => recleaned = cleaned
    /\ (cleaned # None /\ NoFence(text)) => cleaned = text
    /\ (cleaned # None /\ Wrapped(text)) => cleaned = Inner(text)

\* C6 (amended): the cleanup is idempotent; a text that holds no code-fence
\* marker is returned with its leading and trailing whitespace removed (so
\* unchanged only when it has none); a text made of an opening marker
\* (```mermaid when the text starts with it, else ```), a content free of
\* backticks and a closing ``` yields that content with its leading and
\* trailing whitespace removed.
C6_CleanupIdempotentAndTrims ==
    /\ recleaned # None => recleaned = cleaned
    /\ (cleaned # None /\ NoFence(text)) => IsTrimOf(cleaned, text)
    /\ (cleaned # None /\ Wrapped(text)) => IsTrimOf(cleaned, Inner(text))

C6_Witness ==
    /\ text = FenceMermaid \o <<NL, "g", NL>> \o Fence
    /\ cleaned = <<"g">>
    /\ recleaned = <<"g">>

\* C7: the paragraph block written for a refined_notes of length L holds
\* exactly its first 2000 characters when L > 2000 and the whole value when
\* 0 < L <= 2000, no other block written holds any of the refined text, and
\* the code block holds the whole diagram_code.
C7_TruncationAt2000 ==
    \A i \in 1..Len(appendCalls) :
        LET b == appendCalls[i].block
            refined == state.refined_notes
            L == Len(refined)
        IN  /\ b.type = "paragraph" =>
                /\ i = 3
                /\ refined # None /\ L > 0
                /\ L > 2000 =>
                      /\ Len(b.content) = 2000
                      /\ \A j \in 1..2000 : b.content[j] = refined[j]
                /\ L <= 2000 => b.content = refined
            /\ b.type = "code" =>
                /\ Len(b.content) = Len(state.mermaid_code)
                /\ b.content = state.mermaid_code
            /\ b.type \notin {"paragraph", "code"} =>
                b.content \in {<<>>, RefinedHeading, DiagramHeading}

C7_Witness ==
    /\ pc = "done" /\ Len(appendCalls) = 5 /\ AllAppendsOk
    /\ Len(state.refined_notes) = 2001
    /\ Len(appendCalls[3].block.content) = 2000
    /\ Len(state.mermaid_code) = 2001
    /\ Len(appendCalls[5].block.content) = 2001

\* C8: when the block list the store returns holds no recognized block type
\* (process: no paragraph block; read: no paragraph, heading 1-3 or bulleted
\* item), the operation returns its empty-content warning, a string that does
\* not start with "Error"; process then makes no model call, and no model call
\* of process is ever made for blank raw_notes.
C8_EmptyContentWarning ==
    /\ ( /\ op = "process" /\ listing = "ok"
         /\ \A i \in 1..Len(blocks) : blocks[i].type # "paragraph" )
       => /\ ret = WarnNoParagraphText
          /\ ~StartsWith(ret, ErrorWord)
          /\ llmCalls = <<>> /\ Finished
    /\ ( /\ op = "read" /\ listing = "ok"
         /\ \A i \in 1..Len(blocks) :
               blocks[i].type \notin {"paragraph", "heading_1", "heading_2",
                                      "heading_3", "bulleted_list_item"} )
       => /\ ret = WarnPageEmpty
          /\ ~StartsWith(ret, ErrorWord)
          /\ llmCalls = <<>> /\ Finished
    /\ (op = "process" /\ llmCalls # <<>>) =>
          /\ HasText(state.raw_notes)
          /\ HasText(llmCalls[1].text)

C8_Witness ==
    /\ op = "process" /\ pc = "returned" /\ listing = "ok"
    /\ Len(blocks) = 2
    /\ blocks[1].type = "heading_2" /\ blocks[2].type = "divider"
    /\ ret = WarnNoParagraphText

\* C9: on each HTTP route the response has status 400, with the returned
\* string as detail, exactly when the string the operation returned starts
\* with "Error"; every other outcome, the three warnings included, has
\* status 200.
C9_HttpStatus ==
    (pc = "returned" /\ surface = "http") =>
        /\ op \in {"read", "process", "combine"}
        /\ response.status \in {200, 400}
        /\ response.status = 400 <=>
              /\ Len(ret) >= 5
              /\ ret[1] = "E" /\ ret[2] = "r" /\ ret[3] = "r"
              /\ ret[4] = "o" /\ ret[5] = "r"
        /\ response.payload = ret
        /\ ret \in {WarnNoParagraphText, WarnPageEmpty, WarnNoDiagrams}
              => response.status = 200

C9_Witness ==
    /\ pc = "returned" /\ surface = "http" /\ op = "read"
    /\ ret = WarnPageEmpty /\ response.status = 200

\* ---- one line per block, as section 4.1 words the extractor
IsNonEmptyParagraph(b) == b.type = "paragraph" /\ b.rich_text # <<>>
IsNonEmptyRecognized(b) == b.type \in BlockTypes /\ b.rich_text # <<>>

LinePrefix(b) ==
    IF b.type = "paragraph" THEN <<>>
    ELSE IF b.type = "bulleted_list_item" THEN BulletPrefix
    ELSE Hashes(HeadingLevel(b.type)) \o <<" ">>

OneLinePerBlock(bl) == [i \in 1..Len(bl) |-> LinePrefix(bl[i]) \o Concat(bl[i].rich_text)]

\* C10: in both extractors every recognized block with at least one text run
\* contributes exactly one line, the concatenation of its text runs in order
\* (after the heading or bullet prefix in the richer variant), and the lines
\* are joined with a newline in block order.
C10_OneLinePerBlock ==
    /\ (op = "process" /\ listing = "ok") =>
          raw_text = Join(OneLinePerBlock(SelectSeq(blocks, IsNonEmptyParagraph)), <<NL>>)
    /\ (op = "read" /\ listing = "ok" /\ ret # WarnPageEmpty) =>
          ret = Join(OneLinePerBlock(SelectSeq(blocks, IsNonEmptyRecognized)), <<NL>>)

====
